---- MODULE Spec2Model ----
(***************************************************************************)
(* NetraASSIST: the answer-generation service (AIService.generateAnswer,   *)
(* AIService.processQuestions) and the vector store (chunkText,            *)
(* ensureCollection, upsertDocuments, hybridSearch, buildContext), as      *)
(* state machines.                                                         *)
(*                                                                         *)
(* Text is a sequence of one-character strings, so that trim() and slice() *)
(* are computed and not assumed.  Answers are opaque strings.              *)
(***************************************************************************)
EXTENDS Integers, Sequences, FiniteSets, TLC

\* ------------------------------------------------------------------ bounds
\* longest batch handed to processQuestions
MaxBatch == 3
\* longest text handed to chunkText
MaxTextLen == 4
\* largest chunkSize handed to chunkText
MaxChunkSize == 3
\* largest overlap handed to chunkText
MaxOverlap == 3
\* loop iterations of chunkText that are followed (the loop may not end)
MaxIters == 6
\* longest document list handed to upsertDocuments
MaxDocs == 2
\* calls of upsertDocuments / ensureCollection made one after another
MaxRuns == 2
\* most points the store ranks for a query
MaxHits == 3
\* largest topK handed to hybridSearch
MaxTopK == 2
\* largest widen handed to hybridSearch
MaxWiden == 3
\* longest chunk list handed to buildContext
MaxChunks == 3
\* largest maxChars handed to buildContext
MaxChars == 9
\* requests on one job in flight together
MaxReqs == 2
\* most questions of a job
MaxQuestions == 2

\* ------------------------------------------------------- program constants
maxRetries == 3
retryDelayMs == 300
maxContextLength == 4000
\* chunkText(text, chunkSize = 1000, overlap = 150)
DefaultChunkSize == 1000
DefaultOverlap == 150

\* ------------------------------------------------------------------ strings
Whitespace == {" ", "\t", "\n"}

RECURSIVE TrimStart(_)
\* String.prototype.trimStart on a character sequence
TrimStart(s) ==
  IF s = <<>> THEN <<>>
  ELSE IF Head(s) \in Whitespace THEN TrimStart(Tail(s)) ELSE s

RECURSIVE TrimEnd(_)
\* String.prototype.trimEnd on a character sequence
TrimEnd(s) ==
  IF s = <<>> THEN <<>>
  ELSE IF s[Len(s)] \in Whitespace THEN TrimEnd(SubSeq(s, 1, Len(s) - 1)) ELSE s

\* String.prototype.trim
Trim(s) == TrimEnd(TrimStart(s))

Min(a, b) == IF a < b THEN a ELSE b

\* slice(from, to) for 0 <= from, 0 <= to (0-based, end exclusive, both clamped to the length)
Slice(s, from, to) == SubSeq(s, Min(from, Len(s)) + 1, Min(to, Len(s)))

\* !text?.trim(): the empty string is falsy
IsBlankMutant(text) == text = <<>>
IsBlank(text) == Trim(text) = <<>>

\* ---------------------------------------------------------------- questions
\* answer of a question that was never answered (the field is optional)
Undefined == "<undefined>"

OldSources == << <<"doc:", 3, "", "#", 0>> >>

\* Questions a job may hold: pending and already answered ones, accepted or not,
\* with plain, padded, whitespace-only and empty text.
QuestionPool ==
  { [id |-> "q1", text |-> <<"a">>, answer |-> Undefined, accepted |-> FALSE,
     status |-> "pending", sources |-> <<>>],
    [id |-> "q2", text |-> <<" ", "\t">>, answer |-> "old answer", accepted |-> TRUE,
     status |-> "completed", sources |-> OldSources],
    [id |-> "q3", text |-> <<>>, answer |-> Undefined, accepted |-> FALSE,
     status |-> "pending", sources |-> <<>>],
    [id |-> "q4", text |-> <<" ", "b", " ">>, answer |-> "old answer", accepted |-> TRUE,
     status |-> "completed", sources |-> OldSources] }

SeqsUpTo(S, n) == UNION { [1..k -> S] : k \in 0..n }

Batches == SeqsUpTo(QuestionPool, MaxBatch)

\* ---------------------------------------------------------------- retrieval
Missing == -1

ChunkA == [id |-> 11, payload |-> [content |-> <<"x", "y">>, title |-> "T", doc_id |-> 7, chunk_index |-> 2]]
ChunkB == [id |-> 12, payload |-> [content |-> <<"z">>, title |-> "", doc_id |-> Missing, chunk_index |-> Missing]]

\* what hybridSearch may hand back
RetrievedSets == { <<>>, <<ChunkA, ChunkB>> }

\* one citation of buildContext: `doc:${doc_id ?? id}${title}#${chunk_index ?? 0}`
SourceOfMutant(c) ==
  << "doc:", c.id, IF c.payload.title # "" THEN " (" \o c.payload.title \o ")" ELSE "", "#",
     IF c.payload.chunk_index # Missing THEN c.payload.chunk_index ELSE 0 >>
SourceOf(c) ==
  << "doc:",
     IF c.payload.doc_id # Missing THEN c.payload.doc_id ELSE c.id,
     IF c.payload.title # "" THEN " (" \o c.payload.title \o ")" ELSE "",
     "#",
     IF c.payload.chunk_index # Missing THEN c.payload.chunk_index ELSE 0 >>

RECURSIVE JoinParts(_)
\* parts.join("\n\n")
JoinParts(parts) ==
  IF parts = <<>> THEN <<>>
  ELSE IF Len(parts) = 1 THEN parts[1]
  ELSE parts[1] \o <<"\n", "\n">> \o JoinParts(Tail(parts))

Ellipsis == <<"...">>

\* buildContext(chunks, maxChars): the bullet is written "* "
buildContextMutant(chunks, maxChars) ==
  [context |-> JoinParts([k \in 1..Len(chunks) |-> <<"*", " ">> \o chunks[k].payload.content]),
   sources |-> [k \in 1..Len(chunks) |-> SourceOf(chunks[k])]]
buildContext(chunks, maxChars) ==
  LET parts == [k \in 1..Len(chunks) |-> <<"*", " ">> \o chunks[k].payload.content]
      joined == JoinParts(parts)
  IN [context |-> IF Len(joined) > maxChars
                  THEN Slice(joined, 0, maxChars) \o Ellipsis ELSE joined,
      sources |-> [k \in 1..Len(chunks) |-> SourceOf(chunks[k])]]


\* ------------------------------------------------------------------- state
VARIABLES
  call,        \* call[c]: one generateAnswer activation (its locals and position)
  bpc,         \* position of the request being served: idle, the batch loop, or a single-shot call
  questions,   \* processQuestions: the argument
  processed,   \* processQuestions: const processed: Question[] = []
  i,           \* processQuestions: the loop index (0-based)
  how,         \* observer: how each entry of processed came about
  produced,    \* observer: the result records pushed by the running batch, in order
  started,     \* observer: loop indices whose generator call was issued, in order
  inflight,    \* observer: generator calls of the batch that are issued and not collected
  sinceGen,    \* observer: ms waited since the batch's last generator call ended (-1: none yet)
  gapAtStart,  \* observer: sinceGen when the generator call in flight was issued
  ck,          \* chunkText: its arguments, locals and position
  ix,          \* the vector store and one upsertDocuments / ensureCollection activation
  hs,          \* hybridSearch: its arguments, locals and position
  cx,          \* buildContext: its arguments and result
  chat,        \* POST /api/chat: the response and the chat message it stored
  db,          \* storage: the processing job (its questions, status) and the generated files
  rq,          \* rq[r]: one request on the job, its locals and position
  en           \* en[p]: one ensureCollection activation of two concurrent ones, and the store

callVars == <<call>>
batchVars == <<bpc, questions, processed, i, how, produced, started, inflight,
               sinceGen, gapAtStart>>
restVars == <<ck, ix, hs, cx, db, rq, en>>
storeVars == <<restVars, chat>>
vars == <<call, bpc, questions, processed, i, how, produced, started, inflight,
          sinceGen, gapAtStart, ck, ix, hs, cx, chat, db, rq, en>>

\* the activations of generateAnswer that may exist together
Calls == {1, 2}

\* ------------------------------------------------------ AIService.generateAnswer
NoResult == [answer |-> Undefined, sources |-> <<>>]

\* observer: no success response was read
NoContent == "<no response>"

IdleCall ==
  [pc |-> "idle", question |-> <<>>, history |-> <<>>, sources |-> <<>>, attempt |-> 0,
   wait |-> 0, outcome |-> "none", result |-> NoResult, net |-> {}, log |-> <<>>,
   retrieved |-> <<>>, content |-> NoContent, fault |-> "none"]

\* entry of generateAnswer(question, history); checkApiKey() cannot throw, the
\* constructor refuses an empty key and nothing assigns it afterwards
NewCall(question, history) ==
  [IdleCall EXCEPT !.pc = "validate", !.question = question, !.history = history]

InvalidResult == [answer |-> "Invalid question provided", sources |-> <<>>]

ExhaustedResult == [answer |-> "Error generating answer - please try again.", sources |-> <<>>]

UnexpectedResult == [answer |-> "Unexpected error", sources |-> <<>>]

Return(cr, res) == [cr EXCEPT !.pc = "done", !.outcome = "returned", !.result = res]

ThrowMutant(cr) == [cr EXCEPT !.pc = "done", !.outcome = "returned", !.result = ExhaustedResult]
Throw(cr) == [cr EXCEPT !.pc = "done", !.outcome = "thrown"]

\* body of a success response that response.json() cannot read
BadBody == "<unreadable>"

\* What one fetch of the chat endpoint may do: reject (network error), or answer with
\* a status; a success response carries a body, whose content may be empty or absent
\* (both falsy) or which may be unreadable.
ChatResponses ==
  {[kind |-> "neterr", status |-> 0, content |-> ""]}
    \cup {[kind |-> "http", status |-> s, content |-> ""] : s \in {429, 500}}
    \cup {[kind |-> "http", status |-> 200, content |-> b] : b \in {"", "the answer", BadBody}}

\* response.ok
ResponseOk(r) == r.status >= 200 /\ r.status <= 299

\* observer: the kind of outcome a chat request had
ResponseClass(r) ==
  IF r.kind = "neterr" THEN "error"
  ELSE IF ResponseOk(r) THEN (IF r.content = BadBody THEN "error" ELSE "ok")
  ELSE IF r.status = 429 THEN "429" ELSE "status"

ChatEvent(r) == [ev |-> "chat", class |-> ResponseClass(r), ms |-> 0]
DelayEvent(ms) == [ev |-> "delay", class |-> "-", ms |-> ms]

\* response.status === 429 && attempt < this.maxRetries
ShouldBackoff(r, attempt) == r.status = 429 /\ attempt < maxRetries

\* this.retryDelayMs * attempt
BackoffDelayMutant(attempt) == retryDelayMs
BackoffDelay(attempt) == retryDelayMs * attempt

\* attempt === this.maxRetries, in the catch clause
IsLastAttemptMutant(attempt) == attempt > maxRetries
IsLastAttempt(attempt) == attempt = maxRetries

\* data.choices?.[0]?.message?.content || "No response generated"
AnswerOfMutant(content) == "No response generated"
AnswerOf(content) == IF content = "" THEN "No response generated" ELSE content

\* attempt++ and the loop test; the statement after the loop
NextAttemptMutant(cr) ==
  LET attempt == call[1].attempt + call[2].attempt
  IN IF attempt + 1 <= maxRetries THEN [cr EXCEPT !.attempt = attempt + 1, !.pc = "chat"]
     ELSE Return(cr, UnexpectedResult)
NextAttempt(cr) ==
  IF cr.attempt + 1 <= maxRetries
  THEN [cr EXCEPT !.attempt = @ + 1, !.pc = "chat"]
  ELSE Return(cr, UnexpectedResult)

\* the catch clause of the retry loop
CaughtMutant(cr) == Throw(cr)
Caught(cr) == IF IsLastAttempt(cr.attempt) THEN Return(cr, ExhaustedResult) ELSE NextAttempt(cr)

\* if (!question?.trim()) return {answer: "Invalid question provided", sources: []}
GenValidate(c) ==
  /\ call[c].pc = "validate"
  /\ call' = [call EXCEPT ![c] =
                IF IsBlank(@.question) THEN Return(@, InvalidResult)
                ELSE [@ EXCEPT !.pc = "embed"]]

\* hybridSearch: const queryEmbedding = await generateEmbedding(query)
GenEmbed(c) ==
  /\ call[c].pc = "embed"
  /\ \E ok \in BOOLEAN :
       call' = [call EXCEPT ![c] =
                  IF ok THEN [@ EXCEPT !.pc = "ensure", !.net = @ \cup {"embed"}]
                  ELSE Throw([@ EXCEPT !.net = @ \cup {"embed"}, !.fault = "embed"])]

\* hybridSearch: await ensureCollection(queryEmbedding.length)
GenEnsure(c) ==
  /\ call[c].pc = "ensure"
  /\ \E ok \in BOOLEAN :
       call' = [call EXCEPT ![c] =
                  IF ok THEN [@ EXCEPT !.pc = "search", !.net = @ \cup {"store"}]
                  ELSE Throw([@ EXCEPT !.net = @ \cup {"store"}, !.fault = "ensure"])]

\* hybridSearch: qdrant.search and the re-ranking; then buildContext and the prompt
GenSearch(c) ==
  /\ call[c].pc = "search"
  /\ \E ok \in BOOLEAN, retrieved \in RetrievedSets :
       call' = [call EXCEPT ![c] =
                  IF ok
                  THEN [@ EXCEPT !.pc = "chat", !.attempt = 1, !.net = @ \cup {"store"},
                                 !.retrieved = retrieved,
                                 !.sources = buildContext(retrieved, maxContextLength).sources]
                  ELSE Throw([@ EXCEPT !.net = @ \cup {"store"}, !.fault = "search"])]

\* one pass of the retry loop up to its await of the backoff timer
GenChat(c) ==
  /\ call[c].pc = "chat"
  /\ \E r \in ChatResponses :
       LET cr == [call[c] EXCEPT !.net = @ \cup {"chat"}, !.log = Append(@, ChatEvent(r))]
       IN call' = [call EXCEPT ![c] =
            IF r.kind = "neterr" THEN Caught(cr)
            ELSE IF ~ResponseOk(r)
              THEN IF ShouldBackoff(r, cr.attempt)
                   THEN [cr EXCEPT !.pc = "backoff", !.wait = BackoffDelay(cr.attempt)]
                   ELSE Caught(cr)
            ELSE IF r.content = BadBody THEN Caught(cr)
            ELSE Return([cr EXCEPT !.content = r.content],
                        [answer |-> AnswerOf(r.content), sources |-> cr.sources])]

\* the backoff timer fires; continue
GenBackoff(c) ==
  /\ call[c].pc = "backoff"
  /\ call' = [call EXCEPT ![c] =
                NextAttempt([@ EXCEPT !.log = Append(@, DelayEvent(call[c].wait)), !.wait = 0])]

\* --------------------------------------------------- AIService.processQuestions
RegenerateHint == "Error generating answer - please try regenerating this question"

\* {...q, status: "failed", answer: "Invalid question provided", sources: []}
InvalidRecord(q) ==
  [q EXCEPT !.status = "failed", !.answer = "Invalid question provided", !.sources = <<>>]

\* {...q, status: "completed", answer, sources}
CompletedRecordMutant(q, res) ==
  [id |-> q.id, text |-> Trim(q.text), answer |-> res.answer, accepted |-> FALSE,
   status |-> "completed", sources |-> res.sources]
CompletedRecord(q, res) ==
  [q EXCEPT !.status = "completed", !.answer = res.answer, !.sources = res.sources]

\* the record pushed by the catch clause
FailedRecordMutant(q) ==
  [q EXCEPT !.status = "failed", !.answer = "Error generating answer - please try again."]
FailedRecord(q) ==
  [q EXCEPT !.status = "failed", !.answer = RegenerateHint, !.sources = <<>>]

\* processed.slice(0, i)
PreviousQuestionsMutant(done, idx) == SubSeq(done, 1, Min(idx - 1, Len(done)))
PreviousQuestions(done, idx) == SubSeq(done, 1, Min(idx, Len(done)))

\* if (i > 0) await the inter-request delay
NeedsDelayMutant(idx) == idx > 1
NeedsDelay(idx) == idx > 0

\* observer: how a finished generator call ended
HowOf(cr) ==
  IF cr.outcome = "thrown" THEN "thrown"
  ELSE IF cr.log # <<>> /\ cr.log[Len(cr.log)].class = "ok" THEN "success"
  ELSE "exhausted"

\* texts handed to a single-shot call
Texts == { <<>>, <<" ">>, <<"\n", "\t">>, <<"a">>, <<" ", "b", " ">> }

\* POST /api/chat has not responded
IdleChat == [status |-> 0, stored |-> <<>>]

\* no request is being served
AtRest == bpc = "idle"

\* the caller has taken the result of the call it awaited; the locals of that call
\* are gone
Release ==
  /\ bpc = "returned" \/ bpc = "responded"
  /\ bpc' = "idle"
  /\ call' = [call EXCEPT ![1] = IdleCall]
  /\ questions' = <<>>
  /\ processed' = <<>>
  /\ i' = 0
  /\ how' = <<>>
  /\ produced' = <<>>
  /\ started' = <<>>
  /\ inflight' = 0
  /\ sinceGen' = -1
  /\ gapAtStart' = -1
  /\ chat' = IdleChat
  /\ UNCHANGED restVars

\* a route calls processQuestions(job.questions)
StartBatch ==
  /\ AtRest
  /\ \E qs \in Batches : questions' = qs
  /\ processed' = <<>>
  /\ i' = 0
  /\ bpc' = "loop"
  /\ how' = <<>>
  /\ produced' = <<>>
  /\ started' = <<>>
  /\ inflight' = 0
  /\ sinceGen' = -1
  /\ gapAtStart' = -1
  /\ UNCHANGED <<call, storeVars>>

\* the loop test fails: return processed
BatchReturn ==
  /\ bpc = "loop"
  /\ i >= Len(questions)
  /\ bpc' = "returned"
  /\ UNCHANGED <<call, questions, processed, i, how, produced, started, inflight,
                 sinceGen, gapAtStart, storeVars>>

\* if (!q.text?.trim()) { processed.push(...); continue; }
BatchSkipBlank ==
  /\ bpc = "loop"
  /\ i < Len(questions)
  /\ IsBlank(questions[i + 1].text)
  /\ processed' = Append(processed, InvalidRecord(questions[i + 1]))
  /\ how' = Append(how, "blank")
  /\ produced' = Append(produced, InvalidRecord(questions[i + 1]))
  /\ i' = i + 1
  /\ UNCHANGED <<call, bpc, questions, started, inflight, sinceGen, gapAtStart, storeVars>>

\* try { if (i > 0) await new Promise(r => setTimeout(r, this.retryDelayMs)) ...
BatchEnterTry ==
  /\ bpc = "loop"
  /\ i < Len(questions)
  /\ ~IsBlank(questions[i + 1].text)
  /\ bpc' = IF NeedsDelay(i) THEN "delay" ELSE "call"
  /\ UNCHANGED <<call, questions, processed, i, how, produced, started, inflight,
                 sinceGen, gapAtStart, storeVars>>

\* the inter-request timer fires
BatchDelay ==
  /\ bpc = "delay"
  /\ bpc' = "call"
  /\ sinceGen' = IF sinceGen >= 0 THEN sinceGen + retryDelayMs ELSE sinceGen
  /\ UNCHANGED <<call, questions, processed, i, how, produced, started, inflight,
                 gapAtStart, storeVars>>

\* const previousQuestions = processed.slice(0, i); this.generateAnswer(q.text, previousQuestions)
BatchCall ==
  /\ bpc = "call"
  /\ call' = [call EXCEPT ![1] = NewCall(questions[i + 1].text, PreviousQuestions(processed, i))]
  /\ bpc' = "await"
  /\ started' = Append(started, i)
  /\ inflight' = inflight + 1
  /\ gapAtStart' = sinceGen
  /\ UNCHANGED <<questions, processed, i, how, produced, sinceGen, storeVars>>

\* the await of generateAnswer settles: push the completed record, or the catch
\* clause pushes the failed one
BatchCollect ==
  /\ bpc = "await"
  /\ call[1].pc = "done"
  /\ LET q == questions[i + 1]
         rec == IF call[1].outcome = "returned" THEN CompletedRecord(q, call[1].result)
                ELSE FailedRecord(q)
     IN /\ processed' = Append(processed, rec)
        /\ produced' = Append(produced, rec)
  /\ how' = Append(how, HowOf(call[1]))
  /\ i' = i + 1
  /\ bpc' = "loop"
  /\ call' = [call EXCEPT ![1] = IdleCall]
  /\ inflight' = inflight - 1
  /\ sinceGen' = 0
  /\ UNCHANGED <<questions, started, gapAtStart, storeVars>>

\* POST /api/chat after generateChatResponse settled: createChatMessage and the
\* response, or the catch clause (500) when the call or the insert threw
ChatRespond ==
  /\ bpc = "single"
  /\ call[1].pc = "done"
  /\ bpc' = "responded"
  /\ \/ /\ call[1].outcome = "returned"
        /\ chat' = [status |-> 200,
                    stored |-> << [message |-> call[1].question,
                                   response |-> call[1].result.answer,
                                   sources |-> call[1].result.sources] >>]
     \/ chat' = [status |-> 500, stored |-> <<>>]
  /\ UNCHANGED <<call, questions, processed, i, how, produced, started, inflight, sinceGen,
                 gapAtStart, restVars>>

\* a single-shot caller: generateChatResponse(message, history) is generateAnswer
generateChatResponse ==
  /\ AtRest
  /\ bpc' = "single"
  /\ \E text \in Texts : call' = [call EXCEPT ![1] = NewCall(text, <<>>)]
  /\ UNCHANGED <<questions, processed, i, how, produced, started, inflight, sinceGen,
                 gapAtStart, storeVars>>

\* ------------------------------------------------------------------ chunkText
IdleChunk ==
  [pc |-> "idle", text |-> <<>>, chunkSize |-> 1, overlap |-> 0, i |-> 0, chunks |-> <<>>,
   iters |-> 0, cut |-> FALSE]

ChunkTexts == SeqsUpTo({"a", "b", " "}, MaxTextLen)

\* const end = Math.min(i + chunkSize, text.length)
WindowEnd(start, chunkSize, len) == Min(start + chunkSize, len)

\* if (chunk) chunks.push(chunk): the empty string is falsy
KeepChunkMutant(chunk) == TRUE
KeepChunk(chunk) == chunk # <<>>

\* i = end - overlap; if (i < 0) i = 0
NextStartMutant(end, overlap) == end
NextStart(end, overlap) == IF end - overlap < 0 THEN 0 ELSE end - overlap

\* one iteration of while (i < text.length); cut observes whether trim() changed a window
ChunkStep ==
  /\ ck.pc = "loop"
  /\ ck.i < Len(ck.text)
  /\ ck.iters < MaxIters
  /\ LET end == WindowEnd(ck.i, ck.chunkSize, Len(ck.text))
         window == Slice(ck.text, ck.i, end)
         chunk == Trim(window)
         chunks == IF KeepChunk(chunk) THEN Append(ck.chunks, chunk) ELSE ck.chunks
         cut == ck.cut \/ chunk # window
     IN ck' = IF end = Len(ck.text)
              THEN [ck EXCEPT !.chunks = chunks, !.iters = @ + 1, !.cut = cut, !.pc = "done"]
              ELSE [ck EXCEPT !.chunks = chunks, !.iters = @ + 1, !.cut = cut,
                              !.i = NextStart(end, ck.overlap)]

\* the loop test fails: return chunks
ChunkReturn ==
  /\ ck.pc = "loop"
  /\ ck.i >= Len(ck.text)
  /\ ck' = [ck EXCEPT !.pc = "done"]

\* ------------------------------------------------- the chunker as a function
RECURSIVE ChunkFrom(_, _, _, _, _)
\* the loop of chunkText from window start `start` with `chunks` collected so far
ChunkFrom(text, chunkSize, overlap, start, chunks) ==
  IF start >= Len(text) THEN chunks
  ELSE LET end == WindowEnd(start, chunkSize, Len(text))
           chunk == Trim(Slice(text, start, end))
           more == IF KeepChunk(chunk) THEN Append(chunks, chunk) ELSE chunks
       IN IF end = Len(text) THEN more
          ELSE ChunkFrom(text, chunkSize, overlap, NextStart(end, overlap), more)

\* chunkText(doc.content), with the default chunkSize and overlap
chunkText(text) == ChunkFrom(text, DefaultChunkSize, DefaultOverlap, 0, <<>>)

\* ------------------------------------------ ensureCollection, upsertDocuments
NumberId(n) == [kind |-> "number", n |-> n, s |-> ""]
StringId(s) == [kind |-> "string", n |-> 0, s |-> s]

\* a text longer than one chunk, with whitespace in it
LongText == [k \in 1..(DefaultChunkSize + 2 * DefaultOverlap) |->
               IF k % 10 = 0 THEN " " ELSE IF k % 2 = 0 THEN "a" ELSE "b"]

\* Documents of the library: a long one, the same document with shorter content, one
\* with a string id and padded content, and one without content.
DocPool ==
  { [id |-> NumberId(1), title |-> "Policy", content |-> LongText, updatedAt |-> "2024-01-01"],
    [id |-> NumberId(1), title |-> "Policy", content |-> <<"a", "b">>, updatedAt |-> ""],
    [id |-> StringId("faq"), title |-> "", content |-> <<" ", "c">>, updatedAt |-> ""],
    [id |-> NumberId(2), title |-> "Empty", content |-> <<>>, updatedAt |-> ""] }

DocLists == SeqsUpTo(DocPool, MaxDocs)

\* lengths the embedding endpoint's vectors may have
Dims == {2, 3}

\* parseInt(sha1(s).slice(0, 12), 16): a fixed function of the string `${doc.id}:${idx}`.
\* The digest is not computed, and its 48 bits are narrowed to the checker's integers.
HashRange == 2 ^ 30

hashToInt(id, idx) == ((IF id = "faq" THEN 104729 ELSE 15485863) + idx * 7919) % HashRange

\* id: Number.isFinite(doc.id) ? Number(doc.id) * 1_000_000 + idx : hashToInt(`${doc.id}:${idx}`)
PointId(doc, idx) ==
  IF doc.id.kind = "number" THEN doc.id.n * 1000000 + idx ELSE hashToInt(doc.id.s, idx)

\* new Date(doc.updatedAt).toISOString()
ToISOString(date) == date \o "T00:00:00.000Z"

\* the payload of the point of chunk idx (0-based) of doc
PayloadOf(doc, chunks, idx) ==
  [doc_id |-> doc.id, title |-> doc.title, content |-> chunks[idx + 1],
   updatedAt |-> IF doc.updatedAt # "" THEN ToISOString(doc.updatedAt) ELSE Undefined,
   chunk_index |-> idx]

\* const points = embeddings.map((vector, idx) => ({id, vector, payload}))
PointsOf(doc, dim) ==
  LET chunks == chunkText(doc.content)
  IN [k \in 1..Len(chunks) |->
        [id |-> PointId(doc, k - 1), dim |-> dim, payload |-> PayloadOf(doc, chunks, k - 1)]]

\* the store's upsert: a point replaces the stored point with the same id
StoreUpsertMutant(stored, points) ==
  LET key(k) == IF points[k].id \in DOMAIN stored THEN points[k].id + 500 ELSE points[k].id
      keys == {key(k) : k \in 1..Len(points)}
  IN [id \in DOMAIN stored \cup keys |->
        IF id \in keys
        THEN LET k == CHOOSE m \in 1..Len(points) : key(m) = id
             IN [dim |-> points[k].dim, payload |-> points[k].payload]
        ELSE stored[id]]
StoreUpsert(stored, points) ==
  LET ids == {points[k].id : k \in 1..Len(points)}
      last(id) == CHOOSE k \in 1..Len(points) :
                    /\ points[k].id = id
                    /\ \A m \in 1..Len(points) : points[m].id = id => m <= k
  IN [id \in DOMAIN stored \cup ids |->
        IF id \in ids THEN [dim |-> points[last(id)].dim, payload |-> points[last(id)].payload]
        ELSE stored[id]]

\* what an error thrown by generateEmbedding or by the store client carries: a message
\* built from the HTTP status, and no document or point
ErrorOf(message) == [message |-> message, names |-> {}]

NoError == [message |-> "", names |-> {}]

EmptyIndex == [id \in {} |-> [dim |-> 0, payload |-> 0]]

IdleIndex ==
  [pc |-> "idle", caller |-> "none", library |-> <<>>, docs |-> <<>>, d |-> 0, vectorSize |-> 0,
   exists |-> FALSE, size |-> 0, points |-> EmptyIndex,
   outcome |-> "none", error |-> NoError,
   runs |-> 0, creates |-> 0, callCreates |-> 0, existedAtEntry |-> FALSE,
   sizeAtEntry |-> 0, warned |-> FALSE, written |-> <<>>,
   prevOk |-> FALSE, prevPoints |-> EmptyIndex]

IndexThrow(x, message) == [x EXCEPT !.pc = "done", !.outcome = "thrown", !.error = ErrorOf(message)]

\* entry of ensureCollection(vectorSize), from `caller`
EnterEnsure(x, caller, vectorSize) ==
  [x EXCEPT !.pc = "get", !.caller = caller, !.vectorSize = vectorSize, !.callCreates = 0,
            !.existedAtEntry = x.exists, !.sizeAtEntry = x.size, !.warned = FALSE]

\* ensureCollection returns to its caller
LeaveEnsure(x) ==
  IF x.caller = "upsert" THEN [x EXCEPT !.pc = "doc"]
  ELSE [x EXCEPT !.pc = "done", !.outcome = "returned"]

\* upsertDocuments(docs), for the documents of the library: if (!docs?.length) return
UpsertStart ==
  /\ ix.pc = "idle"
  /\ ix.runs < MaxRuns
  /\ LET docs == ix.library
     IN ix' = [ix EXCEPT !.docs = docs, !.d = 0, !.caller = "upsert", !.written = <<>>,
                         !.runs = @ + 1, !.outcome = IF docs = <<>> THEN "returned" ELSE "none",
                         !.error = NoError,
                         !.pc = IF docs = <<>> THEN "done" ELSE "probe"]

\* const probeEmbedding = await generateEmbedding("hello"); ensureCollection(its length)
UpsertProbe ==
  /\ ix.pc = "probe"
  /\ \/ ix' = IndexThrow(ix, "Azure Embeddings error")
     \/ \E dim \in Dims : ix' = EnterEnsure(ix, "upsert", dim)

\* hybridSearch calls ensureCollection(queryEmbedding.length)
EnsureStart ==
  /\ ix.pc = "idle"
  /\ ix.runs < MaxRuns
  /\ \E dim \in Dims :
       ix' = EnterEnsure([ix EXCEPT !.runs = @ + 1, !.docs = <<>>, !.d = 0, !.written = <<>>,
                                    !.outcome = "none", !.error = NoError], "ensure", dim)

\* try { const existing = await qdrant.getCollection(...); warn on another size; return }
\* the store answers only for a collection that exists
EnsureGetAnswers ==
  /\ ix.pc = "get"
  /\ ix.exists
  /\ ix' = LeaveEnsure([ix EXCEPT !.warned = (ix.size # 0 /\ ix.size # ix.vectorSize)])

\* catch { }: getCollection rejected, because the collection is absent or for any
\* other reason (the store cannot be reached)
EnsureGetRejects ==
  /\ ix.pc = "get"
  /\ ix' = [ix EXCEPT !.pc = "create"]

\* await qdrant.createCollection(...): the store refuses to create a collection that
\* exists; otherwise the request succeeds or fails
EnsureCreate ==
  /\ ix.pc = "create"
  /\ LET x == [ix EXCEPT !.creates = @ + 1, !.callCreates = @ + 1]
     IN IF ix.exists THEN ix' = IndexThrow(x, "collection already exists")
        ELSE \/ ix' = IndexThrow(x, "createCollection failed")
             \/ ix' = [x EXCEPT !.exists = TRUE, !.size = ix.vectorSize, !.pc = "pindex"]

\* try { await qdrant.createPayloadIndex(...) } catch (e) { console.warn(...) }
EnsurePayloadIndex ==
  /\ ix.pc = "pindex"
  /\ ix' = LeaveEnsure(ix)

\* the for loop is over: upsertDocuments returns
UpsertReturn ==
  /\ ix.pc = "doc"
  /\ ix.d >= Len(ix.docs)
  /\ ix' = [ix EXCEPT !.pc = "done", !.outcome = "returned"]

\* if (!doc?.content) continue
UpsertSkipDoc ==
  /\ ix.pc = "doc"
  /\ ix.d < Len(ix.docs)
  /\ ix.docs[ix.d + 1].content = <<>>
  /\ ix' = [ix EXCEPT !.d = @ + 1]

\* const chunks = chunkText(doc.content); await Promise.all(chunks.map(generateEmbedding))
UpsertEmbed ==
  /\ ix.pc = "doc"
  /\ ix.d < Len(ix.docs)
  /\ ix.docs[ix.d + 1].content # <<>>
  /\ \/ /\ chunkText(ix.docs[ix.d + 1].content) # <<>>
        /\ ix' = IndexThrow(ix, "Azure Embeddings error")
     \/ ix' = [ix EXCEPT !.pc = "write"]

\* await qdrant.upsert(QDRANT_COLLECTION, {points})
UpsertWrite ==
  /\ ix.pc = "write"
  /\ \/ ix' = IndexThrow(ix, "upsert failed")
     \/ ix' = [ix EXCEPT !.points = StoreUpsert(@, PointsOf(ix.docs[ix.d + 1], ix.vectorSize)),
                         !.written = Append(@, ix.d + 1), !.d = @ + 1, !.pc = "doc"]

\* the stored points without their vectors
PayloadView(stored) == [id \in DOMAIN stored |-> stored[id].payload]

\* the caller has the outcome; the observer keeps the index a completed upsertDocuments left
IndexRelease ==
  /\ ix.pc = "done"
  /\ ix' = [ix EXCEPT !.pc = "idle",
                      !.prevOk = IF ix.caller = "upsert" THEN ix.outcome = "returned" ELSE @,
                      !.prevPoints = IF ix.caller = "upsert" THEN PayloadView(ix.points) ELSE @]

\* ------------------------------------------------------------- hybridSearch
\* s.toLowerCase(), one character
ToLowerCase(c) == IF c = "B" THEN "b" ELSE c

\* \p{L} or \p{N}
IsWordChar(c) == c \in {"a", "b", "B", "7"}

\* .replace(/[^\p{L}\p{N}\s]/gu, " "), one character
Depunctuate(c) == IF IsWordChar(c) \/ c \in Whitespace THEN c ELSE " "

RECURSIVE SplitWords(_, _, _)
\* .split(/\s+/).filter(Boolean): the maximal runs without whitespace
SplitWords(s, word, words) ==
  IF s = <<>> THEN (IF word = <<>> THEN words ELSE Append(words, word))
  ELSE IF Head(s) \in Whitespace
       THEN SplitWords(Tail(s), <<>>, IF word = <<>> THEN words ELSE Append(words, word))
       ELSE SplitWords(Tail(s), Append(word, Head(s)), words)

tokenize(s) == SplitWords([k \in 1..Len(s) |-> Depunctuate(ToLowerCase(s[k]))], <<>>, <<>>)

\* A score is a fraction num / den with den > 0; vector scores are in hundredths.
Frac(num, den) == [num |-> num, den |-> den]

Greater(a, b) == a.num * b.den > b.num * a.den

SameScore(a, b) == a.num * b.den = b.num * a.den

\* Math.min(1, match / qTokens.length), 0 when either token list is empty
keywordOverlapScore(qTokens, dTokens) ==
  IF Len(qTokens) = 0 \/ Len(dTokens) = 0 THEN Frac(0, 1)
  ELSE LET dSet == {dTokens[k] : k \in 1..Len(dTokens)}
           match == Cardinality({k \in 1..Len(qTokens) : qTokens[k] \in dSet})
       IN IF match > Len(qTokens) THEN Frac(1, 1) ELSE Frac(match, Len(qTokens))

\* alpha * r.score + (1 - alpha) * keywordScore, alpha in hundredths
Fused(alpha, vectorScore, keywordScore) ==
  Frac(alpha * vectorScore.num * keywordScore.den
         + (100 - alpha) * keywordScore.num * vectorScore.den,
       100 * vectorScore.den * keywordScore.den)

\* one element of rescored
Rescore(r, qTokens, alpha) ==
  LET keywordScore == keywordOverlapScore(qTokens, tokenize(r.payload.content))
  IN [id |-> r.id, score |-> Fused(alpha, r.score, keywordScore), vectorScore |-> r.score,
      keywordScore |-> keywordScore, payload |-> r.payload]

\* Array.prototype.sort keeps elements that compare equal in their order
InsertByScoreMutant(x, sorted) ==
  LET before == {k \in 1..Len(sorted) : Greater(sorted[k].score, x.score)}
  IN SubSeq(sorted, 1, Cardinality(before)) \o <<x>>
       \o SubSeq(sorted, Cardinality(before) + 1, Len(sorted))
InsertByScore(x, sorted) ==
  LET before == {k \in 1..Len(sorted) : ~Greater(x.score, sorted[k].score)}
  IN SubSeq(sorted, 1, Cardinality(before)) \o <<x>>
       \o SubSeq(sorted, Cardinality(before) + 1, Len(sorted))

RECURSIVE SortByScore(_)
\* rescored.sort((a, b) => b.score - a.score)
SortByScore(rescored) ==
  IF rescored = <<>> THEN <<>>
  ELSE InsertByScore(rescored[Len(rescored)], SortByScore(SubSeq(rescored, 1, Len(rescored) - 1)))

Max(a, b) == IF a > b THEN a ELSE b

\* the points of the collection, as qdrant.search reports them
HitPool ==
  { [id |-> 1, payload |-> [content |-> <<"a", " ", "b">>]],
    [id |-> 2, payload |-> [content |-> <<"B", "-", "7">>]],
    [id |-> 3, payload |-> [content |-> <<>>]] }

HitScores == {Frac(40, 100), Frac(80, 100)}

\* what the store ranks for a query: distinct points, most similar first
Rankings ==
  { r \in SeqsUpTo([id : {1, 2, 3}, payload : {h.payload : h \in HitPool}, score : HitScores],
                   MaxHits) :
      /\ \A k \in 1..Len(r) : [id |-> r[k].id, payload |-> r[k].payload] \in HitPool
      /\ \A k, m \in 1..Len(r) : k < m => (r[k].id # r[m].id /\ ~Greater(r[m].score, r[k].score)) }

Queries == { <<>>, <<"a">>, <<"-">>, <<"B", " ", "a">>, <<"a", ",", "7">>, <<"b", " ", "b">> }

Alphas == {0, 70, 100}

IdleSearch ==
  [pc |-> "idle", query |-> <<>>, topK |-> 0, widen |-> 0, alpha |-> 0, ranking |-> <<>>,
   vectorResults |-> <<>>, rescored |-> <<>>, outcome |-> "none", result |-> <<>>]

SearchThrow == [hs EXCEPT !.pc = "done", !.outcome = "thrown"]

\* const queryEmbedding = await generateEmbedding(query)
SearchEmbed ==
  /\ hs.pc = "embed"
  /\ \/ hs' = SearchThrow
     \/ hs' = [hs EXCEPT !.pc = "ensure"]

\* await ensureCollection(queryEmbedding.length)
SearchEnsure ==
  /\ hs.pc = "ensure"
  /\ \/ hs' = SearchThrow
     \/ hs' = [hs EXCEPT !.pc = "search"]

\* qdrant.search(..., {limit: Math.max(topK, widen)}): the first `limit` of the ranking
SearchQuery ==
  /\ hs.pc = "search"
  /\ \/ hs' = SearchThrow
     \/ hs' = [hs EXCEPT !.pc = "rescore",
                         !.vectorResults = SubSeq(hs.ranking, 1,
                                             Min(Max(hs.topK, hs.widen), Len(hs.ranking)))]

\* const qTokens = tokenize(query); const rescored = vectorResults.map(...)
SearchRescore ==
  /\ hs.pc = "rescore"
  /\ LET qTokens == tokenize(hs.query)
     IN hs' = [hs EXCEPT !.pc = "sort",
                         !.rescored = [k \in 1..Len(hs.vectorResults) |->
                                         Rescore(hs.vectorResults[k], qTokens, hs.alpha)]]

\* rescored.sort(...); return rescored.slice(0, topK)
SearchReturn ==
  /\ hs.pc = "sort"
  /\ hs' = [hs EXCEPT !.pc = "done", !.outcome = "returned",
                      !.result = Slice(SortByScore(hs.rescored), 0, hs.topK)]

\* --------------------------------------------------------------- buildContext
ChunkC == [id |-> 13, payload |-> [content |-> <<>>, title |-> "U", doc_id |-> 0, chunk_index |-> 0]]

ContextChunks == SeqsUpTo({ChunkA, ChunkB, ChunkC}, MaxChunks)

IdleContext == [pc |-> "idle", chunks |-> <<>>, maxChars |-> 0, context |-> <<>>, sources |-> <<>>]

\* const {context, sources} = buildContext(chunks, maxChars)
ContextBuild ==
  /\ cx.pc = "call"
  /\ LET built == buildContext(cx.chunks, cx.maxChars)
     IN cx' = [cx EXCEPT !.pc = "done", !.context = built.context, !.sources = built.sources]

\* ------------------------------------------------------ the job routes
\* observer: the question has not been accepted
NotAccepted == "<not accepted>"

QuestionIds == [k \in 1..MaxQuestions |-> IF k = 1 THEN "q1" ELSE IF k = 2 THEN "q2" ELSE "q3"]

\* a question id no job holds
StrayId == "q9"

\* no processing job is stored. disk and records count the export files written and
\* the generated-file rows; acked and acceptedAnswer are observers: the questions whose
\* accept request was answered success, and the answer each question had when accepted.
NoJob ==
  [exists |-> FALSE, questions |-> <<>>, status |-> "none", disk |-> 0, records |-> 0,
   acked |-> {}, acceptedAnswer |-> [k \in 1..MaxQuestions |-> NotAccepted]]

\* the requests on the job that may be in flight together
Reqs == 1..MaxReqs

\* one request: job is what the route read, read is what the storage method read
IdleReq ==
  [kind |-> "none", pc |-> "idle", questionId |-> "", job |-> <<>>, read |-> <<>>,
   result |-> NoResult, status |-> 0, error |-> "", wrote |-> 0, recorded |-> 0]

\* fileProcessor.processFile: {id: uuidv4(), text, status: "pending", accepted: false}
NewQuestion(k) ==
  [id |-> QuestionIds[k], text |-> IF k = 2 THEN <<" ", "b", " ">> ELSE <<"a">>,
   answer |-> Undefined, accepted |-> FALSE, status |-> "pending", sources |-> <<>>]

\* POST /api/upload: createProcessingJob, updateQuestions, status "processing"
\* (between the two writes the job has no questions: every route answers 404 and
\* the storage methods return false, as for a job that is not there)
Upload ==
  /\ ~db.exists
  /\ \E n \in 1..MaxQuestions :
       db' = [db EXCEPT !.exists = TRUE, !.status = "processing",
                        !.questions = [k \in 1..n |-> NewQuestion(k)]]
  /\ UNCHANGED rq

\* a request on the job arrives
StartRequest(r) ==
  /\ rq[r].pc = "idle"
  /\ \/ \E kind \in {"generate", "export"} :
          rq' = [rq EXCEPT ![r] = [IdleReq EXCEPT !.kind = kind, !.pc = "read"]]
     \/ \E kind \in {"accept", "regenerate"}, id \in {"q1", "q2", StrayId} :
          rq' = [rq EXCEPT ![r] = [IdleReq EXCEPT !.kind = kind, !.pc = "read", !.questionId = id]]
  /\ UNCHANGED db

Respond(req, status, error) == [req EXCEPT !.pc = "done", !.status = status, !.error = error]

\* questions.find(q => q.id === questionId) finds one
HasQuestion(qs, id) == \E k \in 1..Len(qs) : qs[k].id = id

\* job.questions.every(q => q.accepted)
AllAcceptedMutant(qs) == \E k \in 1..Len(qs) : qs[k].accepted
AllAccepted(qs) == \A k \in 1..Len(qs) : qs[k].accepted

\* const job = await storage.getProcessingJob(jobId), and the tests that follow it
RouteRead(r) ==
  /\ rq[r].pc = "read"
  /\ LET req == [rq[r] EXCEPT !.job = db.questions]
         next == IF ~db.exists THEN Respond(rq[r], 404, "Job not found")
                 ELSE IF req.kind = "generate" THEN [req EXCEPT !.pc = "process"]
                 ELSE IF req.kind = "accept" THEN [req EXCEPT !.pc = "read2"]
                 ELSE IF req.kind = "regenerate"
                   THEN IF HasQuestion(db.questions, req.questionId)
                        THEN [req EXCEPT !.pc = "generate"]
                        ELSE Respond(req, 404, "Question not found")
                 ELSE IF AllAccepted(db.questions) THEN [req EXCEPT !.pc = "file"]
                 ELSE Respond(req, 400, "All answers must be accepted before exporting")
     IN rq' = [rq EXCEPT ![r] = next]
  /\ UNCHANGED db

\* a generateAnswer result with an answer and the source of one chunk
AnsweredResult == [answer |-> "new answer", sources |-> << <<"doc:", 5, "", "#", 1>> >>]

\* what the generateAnswer call of the regenerate route may return
RouteResults == { AnsweredResult, ExhaustedResult }

\* observer: a generateAnswer call that threw
ThrownCall == [answer |-> "<thrown>", sources |-> <<>>]

\* what a generateAnswer call of processQuestions may do: return an answer, or throw
BatchOutcomes == { AnsweredResult, ThrownCall }

\* processQuestions(job.questions), by its result: per question the record of the
\* blank test, of a returned generateAnswer or of a thrown one
ProcessedOf(qs, outcome) ==
  [k \in 1..Len(qs) |->
     IF IsBlank(qs[k].text) THEN InvalidRecord(qs[k])
     ELSE IF outcome[k] = ThrownCall THEN FailedRecord(qs[k])
     ELSE CompletedRecord(qs[k], outcome[k])]

\* POST /generate: const processedQuestions = await aiService.processQuestions(job.questions),
\* or checkApiKey throws and the catch sets the status "failed" and answers 500
GenerateProcess(r) ==
  /\ rq[r].kind = "generate"
  /\ rq[r].pc = "process"
  /\ \/ /\ \E outcome \in [1..Len(rq[r].job) -> BatchOutcomes] :
            rq' = [rq EXCEPT ![r] =
                     [@ EXCEPT !.pc = "write", !.read = ProcessedOf(rq[r].job, outcome)]]
        /\ UNCHANGED db
     \/ /\ db' = [db EXCEPT !.status = "failed"]
        /\ rq' = [rq EXCEPT ![r] = Respond(@, 500, "Failed to generate answers")]

\* POST /generate: updateQuestions(jobId, processedQuestions), status "completed", success
GenerateWrite(r) ==
  /\ rq[r].kind = "generate"
  /\ rq[r].pc = "write"
  /\ db' = [db EXCEPT !.questions = rq[r].read, !.status = "completed"]
  /\ rq' = [rq EXCEPT ![r] = Respond(@, 200, "")]

\* acceptQuestion / updateQuestionAnswer: const job = await this.getProcessingJob(jobId)
StorageRead(r) ==
  /\ rq[r].kind \in {"accept", "regenerate"}
  /\ rq[r].pc = "read2"
  /\ rq' = [rq EXCEPT ![r] =
              IF db.exists THEN [@ EXCEPT !.pc = "write", !.read = db.questions]
              ELSE IF @.kind = "accept" THEN Respond(@, 404, "Question not found")
              ELSE Respond(@, 200, "")]
  /\ UNCHANGED db

\* job.questions.map(q => q.id === questionId ? {...q, accepted: true} : q)
AcceptIn(qs, id) ==
  [k \in 1..Len(qs) |-> IF qs[k].id = id THEN [qs[k] EXCEPT !.accepted = TRUE] ELSE qs[k]]

\* job.questions.map(q => q.id === questionId ? {...q, answer, status: "completed"} : q)
AnswerIn(qs, id, answer) ==
  [k \in 1..Len(qs) |->
     IF qs[k].id = id THEN [qs[k] EXCEPT !.answer = answer, !.status = "completed"] ELSE qs[k]]

\* acceptQuestion: the update of the row, result.length > 0; the route answers success
AcceptWrite(r) ==
  /\ rq[r].kind = "accept"
  /\ rq[r].pc = "write"
  /\ LET updatedQuestions == AcceptIn(rq[r].read, rq[r].questionId)
     IN db' = [db EXCEPT
                 !.questions = updatedQuestions,
                 !.acked = @ \cup {rq[r].questionId},
                 !.acceptedAnswer =
                   [k \in 1..MaxQuestions |->
                      IF k <= Len(updatedQuestions) /\ updatedQuestions[k].id = rq[r].questionId
                      THEN updatedQuestions[k].answer ELSE @[k]]]
  /\ rq' = [rq EXCEPT ![r] = Respond(@, 200, "")]

\* POST /regenerate: const result = await aiService.generateAnswer(question.text, job.questions)
RegenerateCall(r) ==
  /\ rq[r].kind = "regenerate"
  /\ rq[r].pc = "generate"
  /\ \/ \E result \in RouteResults : rq' = [rq EXCEPT ![r] = [@ EXCEPT !.pc = "read2", !.result = result]]
     \/ rq' = [rq EXCEPT ![r] = Respond(@, 500, "Failed to regenerate answer")]
  /\ UNCHANGED db

\* updateQuestionAnswer: the update of the row; the route answers with the result
RegenerateWrite(r) ==
  /\ rq[r].kind = "regenerate"
  /\ rq[r].pc = "write"
  /\ db' = [db EXCEPT !.questions = AnswerIn(rq[r].read, rq[r].questionId, rq[r].result.answer)]
  /\ rq' = [rq EXCEPT ![r] = Respond(@, 200, "")]

\* GET /export: XLSX.writeFile(wb, filePath)
ExportFile(r) ==
  /\ rq[r].kind = "export"
  /\ rq[r].pc = "file"
  /\ \/ /\ db' = [db EXCEPT !.disk = @ + 1]
        /\ rq' = [rq EXCEPT ![r] = [@ EXCEPT !.pc = "record", !.wrote = @ + 1]]
     \/ /\ rq' = [rq EXCEPT ![r] = Respond(@, 500, "Failed to export job")]
        /\ UNCHANGED db

\* GET /export: await storage.createGeneratedFile(...); res.sendFile
ExportRecord(r) ==
  /\ rq[r].kind = "export"
  /\ rq[r].pc = "record"
  /\ db' = [db EXCEPT !.records = @ + 1]
  /\ rq' = [rq EXCEPT ![r] = Respond([@ EXCEPT !.recorded = @ + 1], 200, "")]

\* ------------------------------------ ensureCollection, two calls interleaved
Procs == {1, 2}

\* the store without the collection, reachable and answering truthfully; no call yet
IdleEnsure ==
  [exists |-> FALSE, size |-> 0, collections |-> 0, pc |-> [p \in Procs |-> "idle"],
   vectorSize |-> [p \in Procs |-> 0], outcome |-> [p \in Procs |-> "none"],
   warned |-> [p \in Procs |-> FALSE]]

\* hybridSearch p calls ensureCollection(queryEmbedding.length)
PairEnsureStart(p) ==
  /\ en.pc[p] = "idle"
  /\ \E dim \in Dims : en' = [en EXCEPT !.pc[p] = "get", !.vectorSize[p] = dim]

\* getCollection resolves: warn on another size, return
PairGetAnswers(p) ==
  /\ en.pc[p] = "get"
  /\ en.exists
  /\ en' = [en EXCEPT !.pc[p] = "done", !.outcome[p] = "returned",
                      !.warned[p] = (en.size # 0 /\ en.size # en.vectorSize[p])]

\* getCollection rejects, the collection being absent: catch { }
PairGetRejects(p) ==
  /\ en.pc[p] = "get"
  /\ ~en.exists
  /\ en' = [en EXCEPT !.pc[p] = "create"]

\* await qdrant.createCollection(...): refused when the collection exists by now
PairCreate(p) ==
  /\ en.pc[p] = "create"
  /\ en' = IF en.exists THEN [en EXCEPT !.pc[p] = "done", !.outcome[p] = "thrown"]
           ELSE [en EXCEPT !.exists = TRUE, !.size = en.vectorSize[p],
                           !.collections = @ + 1, !.pc[p] = "pindex"]

\* createPayloadIndex in its try/catch, which warns when it fails; return
PairPayloadIndex(p) ==
  /\ en.pc[p] = "pindex"
  /\ \E failed \in BOOLEAN :
       en' = [en EXCEPT !.pc[p] = "done", !.outcome[p] = "returned", !.warned[p] = failed]

\* ------------------------------------------------------------ specifications
InitService ==
  /\ call = [c \in Calls |-> IdleCall]
  /\ bpc = "idle"
  /\ questions = <<>>
  /\ processed = <<>>
  /\ i = 0
  /\ how = <<>>
  /\ produced = <<>>
  /\ started = <<>>
  /\ inflight = 0
  /\ sinceGen = -1
  /\ gapAtStart = -1
  /\ chat = IdleChat
  /\ db = NoJob
  /\ rq = [r \in Reqs |-> IdleReq]
  /\ en = IdleEnsure

\* the service, serving batches and single-shot calls one after another, without end
Init ==
  /\ InitService
  /\ ck = IdleChunk
  /\ ix = IdleIndex
  /\ hs = IdleSearch
  /\ cx = IdleContext

Next ==
  \/ StartBatch
  \/ BatchReturn
  \/ BatchSkipBlank
  \/ BatchEnterTry
  \/ BatchDelay
  \/ BatchCall
  \/ BatchCollect
  \/ generateChatResponse
  \/ ChatRespond
  \/ Release
  \/ (GenValidate(1) /\ UNCHANGED <<batchVars, storeVars>>)
  \/ (GenEmbed(1) /\ UNCHANGED <<batchVars, storeVars>>)
  \/ (GenEnsure(1) /\ UNCHANGED <<batchVars, storeVars>>)
  \/ (GenSearch(1) /\ UNCHANGED <<batchVars, storeVars>>)
  \/ (GenChat(1) /\ UNCHANGED <<batchVars, storeVars>>)
  \/ (GenBackoff(1) /\ UNCHANGED <<batchVars, storeVars>>)

Spec == Init /\ [][Next]_vars

\* chunkText applied to every bounded text, chunkSize and overlap
InitChunk ==
  /\ InitService
  /\ ix = IdleIndex
  /\ hs = IdleSearch
  /\ cx = IdleContext
  /\ \E t \in ChunkTexts, size \in 1..MaxChunkSize, ov \in 0..MaxOverlap :
       ck = [IdleChunk EXCEPT !.pc = "loop", !.text = t, !.chunkSize = size, !.overlap = ov]

NextChunk ==
  \/ (ChunkStep /\ UNCHANGED <<callVars, batchVars, ix, hs, cx, chat, db, rq, en>>)
  \/ (ChunkReturn /\ UNCHANGED <<callVars, batchVars, ix, hs, cx, chat, db, rq, en>>)

SpecChunk == InitChunk /\ [][NextChunk]_vars

\* A library of documents and a vector store: without its collection, or with it and
\* the points an earlier upsertDocuments([doc]) wrote. upsertDocuments(library) and
\* ensureCollection are then called one after another.
InitIndex ==
  /\ InitService
  /\ ck = IdleChunk
  /\ hs = IdleSearch
  /\ cx = IdleContext
  /\ \E library \in DocLists, exists \in BOOLEAN, size \in Dims, seed \in SeqsUpTo(DocPool, 1) :
       /\ seed # <<>> => exists
       /\ ix = [IdleIndex EXCEPT
                  !.library = library, !.exists = exists, !.size = IF exists THEN size ELSE 0,
                  !.points = IF seed = <<>> THEN EmptyIndex
                             ELSE StoreUpsert(EmptyIndex, PointsOf(seed[1], size))]

NextIndex ==
  \/ (UpsertStart /\ UNCHANGED <<callVars, batchVars, ck, hs, cx, chat, db, rq, en>>)
  \/ (UpsertProbe /\ UNCHANGED <<callVars, batchVars, ck, hs, cx, chat, db, rq, en>>)
  \/ (EnsureStart /\ UNCHANGED <<callVars, batchVars, ck, hs, cx, chat, db, rq, en>>)
  \/ (EnsureGetAnswers /\ UNCHANGED <<callVars, batchVars, ck, hs, cx, chat, db, rq, en>>)
  \/ (EnsureGetRejects /\ UNCHANGED <<callVars, batchVars, ck, hs, cx, chat, db, rq, en>>)
  \/ (EnsureCreate /\ UNCHANGED <<callVars, batchVars, ck, hs, cx, chat, db, rq, en>>)
  \/ (EnsurePayloadIndex /\ UNCHANGED <<callVars, batchVars, ck, hs, cx, chat, db, rq, en>>)
  \/ (UpsertReturn /\ UNCHANGED <<callVars, batchVars, ck, hs, cx, chat, db, rq, en>>)
  \/ (UpsertSkipDoc /\ UNCHANGED <<callVars, batchVars, ck, hs, cx, chat, db, rq, en>>)
  \/ (UpsertEmbed /\ UNCHANGED <<callVars, batchVars, ck, hs, cx, chat, db, rq, en>>)
  \/ (UpsertWrite /\ UNCHANGED <<callVars, batchVars, ck, hs, cx, chat, db, rq, en>>)
  \/ (IndexRelease /\ UNCHANGED <<callVars, batchVars, ck, hs, cx, chat, db, rq, en>>)

SpecIndex == InitIndex /\ [][NextIndex]_vars

\* hybridSearch(query, topK, widen, alpha) over a collection with a ranking for the query
InitSearch ==
  /\ InitService
  /\ ck = IdleChunk
  /\ ix = IdleIndex
  /\ cx = IdleContext
  /\ \E query \in Queries, topK \in 0..MaxTopK, widen \in 0..MaxWiden, alpha \in Alphas,
        ranking \in Rankings :
       hs = [IdleSearch EXCEPT !.pc = "embed", !.query = query, !.topK = topK,
                               !.widen = widen, !.alpha = alpha, !.ranking = ranking]

NextSearch ==
  \/ (SearchEmbed /\ UNCHANGED <<callVars, batchVars, ck, ix, cx, chat, db, rq, en>>)
  \/ (SearchEnsure /\ UNCHANGED <<callVars, batchVars, ck, ix, cx, chat, db, rq, en>>)
  \/ (SearchQuery /\ UNCHANGED <<callVars, batchVars, ck, ix, cx, chat, db, rq, en>>)
  \/ (SearchRescore /\ UNCHANGED <<callVars, batchVars, ck, ix, cx, chat, db, rq, en>>)
  \/ (SearchReturn /\ UNCHANGED <<callVars, batchVars, ck, ix, cx, chat, db, rq, en>>)

SpecSearch == InitSearch /\ [][NextSearch]_vars

\* buildContext(chunks, maxChars) for a chunk list and a budget
InitContext ==
  /\ InitService
  /\ ck = IdleChunk
  /\ ix = IdleIndex
  /\ hs = IdleSearch
  /\ \E chunks \in ContextChunks, maxChars \in 0..MaxChars :
       cx = [IdleContext EXCEPT !.pc = "call", !.chunks = chunks, !.maxChars = maxChars]

NextContext ==
  \/ (ContextBuild /\ UNCHANGED <<callVars, batchVars, ck, ix, hs, chat, db, rq, en>>)

SpecContext == InitContext /\ [][NextContext]_vars

\* the texts two concurrent callers ask about
PairTexts == { <<"a">>, <<" ", "b", " ">> }

\* two generateAnswer calls on the one AIService instance, each awaiting its own
\* requests: their steps interleave in every order
InitPair ==
  /\ InitService
  /\ ck = IdleChunk
  /\ ix = IdleIndex
  /\ hs = IdleSearch
  /\ cx = IdleContext

PairCall ==
  \E c \in Calls, text \in PairTexts :
    /\ call[c].pc = "idle"
    /\ call' = [call EXCEPT ![c] = NewCall(text, <<>>)]

NextPair ==
  \/ (PairCall /\ UNCHANGED <<batchVars, storeVars>>)
  \/ ((\E c \in Calls : GenValidate(c)) /\ UNCHANGED <<batchVars, storeVars>>)
  \/ ((\E c \in Calls : GenEmbed(c)) /\ UNCHANGED <<batchVars, storeVars>>)
  \/ ((\E c \in Calls : GenEnsure(c)) /\ UNCHANGED <<batchVars, storeVars>>)
  \/ ((\E c \in Calls : GenSearch(c)) /\ UNCHANGED <<batchVars, storeVars>>)
  \/ ((\E c \in Calls : GenChat(c)) /\ UNCHANGED <<batchVars, storeVars>>)
  \/ ((\E c \in Calls : GenBackoff(c)) /\ UNCHANGED <<batchVars, storeVars>>)

SpecPair == InitPair /\ [][NextPair]_vars

\* one generateAnswer call, from its entry to its end; every await settles
InitCall ==
  /\ InitPair

NextCall ==
  \/ ((\E text \in Texts : call[1].pc = "idle" /\ call' = [call EXCEPT ![1] = NewCall(text, <<>>)])
        /\ UNCHANGED <<batchVars, storeVars>>)
  \/ (GenValidate(1) /\ UNCHANGED <<batchVars, storeVars>>)
  \/ (GenEmbed(1) /\ UNCHANGED <<batchVars, storeVars>>)
  \/ (GenEnsure(1) /\ UNCHANGED <<batchVars, storeVars>>)
  \/ (GenSearch(1) /\ UNCHANGED <<batchVars, storeVars>>)
  \/ (GenChat(1) /\ UNCHANGED <<batchVars, storeVars>>)
  \/ (GenBackoff(1) /\ UNCHANGED <<batchVars, storeVars>>)

SpecCall == InitCall /\ [][NextCall]_vars /\ WF_vars(NextCall)

\* two ensureCollection calls on a store without the collection, interleaved
NextEnsure ==
  \/ ((\E p \in Procs : PairEnsureStart(p)) /\ UNCHANGED <<callVars, batchVars, ck, ix, hs, cx, chat, db, rq>>)
  \/ ((\E p \in Procs : PairGetAnswers(p)) /\ UNCHANGED <<callVars, batchVars, ck, ix, hs, cx, chat, db, rq>>)
  \/ ((\E p \in Procs : PairGetRejects(p)) /\ UNCHANGED <<callVars, batchVars, ck, ix, hs, cx, chat, db, rq>>)
  \/ ((\E p \in Procs : PairCreate(p)) /\ UNCHANGED <<callVars, batchVars, ck, ix, hs, cx, chat, db, rq>>)
  \/ ((\E p \in Procs : PairPayloadIndex(p)) /\ UNCHANGED <<callVars, batchVars, ck, ix, hs, cx, chat, db, rq>>)

SpecEnsure == InitPair /\ [][NextEnsure]_vars

\* one processing job: it is uploaded, and requests on it are served concurrently,
\* each step of a handler between two awaits being one step
NextJob ==
  \/ (Upload /\ UNCHANGED <<callVars, batchVars, ck, ix, hs, cx, chat, en>>)
  \/ ((\E r \in Reqs : StartRequest(r)) /\ UNCHANGED <<callVars, batchVars, ck, ix, hs, cx, chat, en>>)
  \/ ((\E r \in Reqs : RouteRead(r)) /\ UNCHANGED <<callVars, batchVars, ck, ix, hs, cx, chat, en>>)
  \/ ((\E r \in Reqs : GenerateProcess(r)) /\ UNCHANGED <<callVars, batchVars, ck, ix, hs, cx, chat, en>>)
  \/ ((\E r \in Reqs : GenerateWrite(r)) /\ UNCHANGED <<callVars, batchVars, ck, ix, hs, cx, chat, en>>)
  \/ ((\E r \in Reqs : StorageRead(r)) /\ UNCHANGED <<callVars, batchVars, ck, ix, hs, cx, chat, en>>)
  \/ ((\E r \in Reqs : AcceptWrite(r)) /\ UNCHANGED <<callVars, batchVars, ck, ix, hs, cx, chat, en>>)
  \/ ((\E r \in Reqs : RegenerateCall(r)) /\ UNCHANGED <<callVars, batchVars, ck, ix, hs, cx, chat, en>>)
  \/ ((\E r \in Reqs : RegenerateWrite(r)) /\ UNCHANGED <<callVars, batchVars, ck, ix, hs, cx, chat, en>>)
  \/ ((\E r \in Reqs : ExportFile(r)) /\ UNCHANGED <<callVars, batchVars, ck, ix, hs, cx, chat, en>>)
  \/ ((\E r \in Reqs : ExportRecord(r)) /\ UNCHANGED <<callVars, batchVars, ck, ix, hs, cx, chat, en>>)

SpecJob == InitPair /\ [][NextJob]_vars

\* ------------------------------------------------------------------- claims
\* the chat requests of a call, in order
ChatEvents(log) == SelectSeq(log, LAMBDA e : e.ev = "chat")

\* every chat request of the call so far was answered HTTP 429
Only429(log) == \A k \in 1..Len(log) : log[k].ev = "chat" => log[k].class = "429"

Got429 == [ev |-> "chat", class |-> "429", ms |-> 0]
Waited(ms) == [ev |-> "delay", class |-> "-", ms |-> ms]

\* three requests, 1 x and 2 x retryDelayMs between them, nothing after the third
Schedule429 == <<Got429, Waited(retryDelayMs), Got429, Waited(2 * retryDelayMs), Got429>>

\* text that is empty or made of whitespace only
AllWhitespace(t) == \A k \in 1..Len(t) : t[k] \in {" ", "\t", "\n"}

\* C1: in a batch, the non-blank questions whose generateAnswer call threw are exactly
\* the non-blank questions returned with status failed; each carries the regenerate
\* hint and no sources; and the batch still returns one record per question.
C1_FailureIsolation ==
  /\ Len(how) = Len(processed)
  /\ \A k \in 1..Len(processed) :
       /\ ~AllWhitespace(questions[k].text) =>
            (how[k] = "thrown" <=> processed[k].status = "failed")
       /\ how[k] = "thrown" =>
            /\ processed[k].answer =
                 "Error generating answer - please try regenerating this question"
            /\ processed[k].sources = <<>>
       /\ how[k] # "thrown" =>
            processed[k].answer #
              "Error generating answer - please try regenerating this question"
  /\ bpc = "returned" => Len(processed) = Len(questions)

\* a returned batch of three whose second generator call threw and whose third succeeded
C1_Witness ==
  /\ bpc = "returned"
  /\ how = <<"success", "thrown", "success">>
  /\ processed[2].status = "failed"
  /\ processed[3].status = "completed"

\* C2: a call whose chat requests are all answered 429 makes exactly 3 requests, waits
\* 1 x retryDelayMs after the first and 2 x retryDelayMs after the second, nothing
\* after the third, and ends with the fixed error answer.
C2_RetryCeiling ==
  \A c \in Calls :
    (call[c].log # <<>> /\ Only429(call[c].log)) =>
      /\ Len(call[c].log) <= Len(Schedule429)
      /\ call[c].log = SubSeq(Schedule429, 1, Len(call[c].log))
      /\ call[c].pc = "backoff" =>
           call[c].wait = (Len(ChatEvents(call[c].log))) * retryDelayMs
      /\ call[c].pc = "done" <=> call[c].log = Schedule429
      /\ call[c].pc = "done" =>
           /\ call[c].outcome = "returned"
           /\ call[c].result = [answer |-> "Error generating answer - please try again.",
                                sources |-> <<>>]

\* a finished call that saw 429 three times
C2_Witness ==
  \E c \in Calls : call[c].pc = "done" /\ call[c].log = Schedule429

\* C3: a question whose chat call failed on every attempt is returned failed, with
\* the regenerate hint and no sources; completed is given only after a success response.
C3_ExhaustedIsFailed ==
  \A k \in 1..Len(processed) :
    /\ how[k] = "exhausted" =>
         /\ processed[k].status = "failed"
         /\ processed[k].answer =
              "Error generating answer - please try regenerating this question"
         /\ processed[k].sources = <<>>
    /\ processed[k].status = "completed" => how[k] = "success"

\* C4: a chat request answered with a non-success status other than 429 is the last
\* chat request of its call, which ends there without a success.
C4_OtherStatusIsTerminal ==
  \A c \in Calls :
    \A k \in 1..Len(call[c].log) :
      (call[c].log[k].ev = "chat" /\ call[c].log[k].class = "status") =>
        /\ k = Len(call[c].log)
        /\ call[c].pc = "done"

\* C5: while a generator call of the batch is in flight it is the only one, it is for
\* the loop index last issued, indices are issued in increasing order, the results of
\* all earlier questions exist, and its history is exactly those results, in order.
C5_SequentialHistory ==
  /\ inflight \in {0, 1}
  /\ \A k \in 1..Len(started) : \A m \in 1..Len(started) : k < m => started[k] < started[m]
  /\ bpc = "await" =>
       /\ inflight = 1
       /\ started[Len(started)] = i
       /\ Len(produced) = i
       /\ call[1].history = produced
       /\ \A k \in 1..Len(call[1].history) :
            /\ call[1].history[k].id = questions[k].id
            /\ call[1].history[k].text = questions[k].text
  /\ bpc # "await" => inflight = 0

\* the third question of a batch is being answered
C5_Witness ==
  /\ bpc = "await"
  /\ i = 2
  /\ started = <<0, 2>>
  /\ Len(call[1].history) = 2

\* C6: the batch result has one entry per input question, the k-th carrying the id,
\* text and accepted value of the k-th input.
C6_FramePreserved ==
  /\ Len(processed) <= Len(questions)
  /\ \A k \in 1..Len(processed) :
       /\ processed[k].id = questions[k].id
       /\ processed[k].text = questions[k].text
       /\ processed[k].accepted = questions[k].accepted
  /\ bpc = "returned" => Len(processed) = Len(questions)

\* a returned batch with a blank question, a thrown call and a completed answer to an
\* accepted question with padded text
C6_Witness ==
  /\ bpc = "returned"
  /\ Len(processed) = 3
  /\ how[1] = "blank"
  /\ how[2] = "thrown"
  /\ how[3] = "success"
  /\ questions[3].accepted
  /\ questions[3].text = <<" ", "b", " ">>

\* C7: a call that made maxRetries chat requests, the last one failing, returns the
\* fixed answer with no sources.
C7_DegradedResult ==
  \A c \in Calls :
    LET chats == ChatEvents(call[c].log)
    IN (Len(chats) = 3 /\ chats[3].class # "ok") =>
         /\ call[c].pc = "done"
         /\ call[c].outcome = "returned"
         /\ call[c].result = [answer |-> "Error generating answer - please try again.",
                              sources |-> <<>>]

\* attempts exhausted although retrieval had produced sources
C7_Witness ==
  \E c \in Calls :
    /\ Len(ChatEvents(call[c].log)) = 3
    /\ ChatEvents(call[c].log)[3].class # "ok"
    /\ call[c].sources # <<>>
    /\ call[c].pc = "done"

\* C8: a call with a blank question makes no network request and returns the fixed
\* invalid-question answer; a batch returns a blank question failed with that answer
\* and no sources, without calling the generator for it.
C8_BlankShortcut ==
  /\ \A c \in Calls :
       (call[c].pc # "idle" /\ AllWhitespace(call[c].question)) =>
         /\ call[c].net = {}
         /\ call[c].log = <<>>
         /\ call[c].pc \in {"validate", "done"}
         /\ call[c].pc = "done" =>
              /\ call[c].outcome = "returned"
              /\ call[c].result = [answer |-> "Invalid question provided", sources |-> <<>>]
  /\ \A k \in 1..Len(processed) :
       AllWhitespace(questions[k].text) =>
         /\ how[k] = "blank"
         /\ processed[k].status = "failed"
         /\ processed[k].answer = "Invalid question provided"
         /\ processed[k].sources = <<>>
  /\ \A k \in 1..Len(started) : ~AllWhitespace(questions[started[k] + 1].text)

\* a returned batch whose second question is whitespace-only and came after an
\* answered one
C8_Witness ==
  /\ bpc = "returned"
  /\ Len(processed) >= 2
  /\ how[1] = "success"
  /\ questions[2].text = <<" ", "\t">>
  /\ processed[2].status = "failed"

\* C9: every generator call of a batch after its first is issued when exactly one
\* inter-request delay has elapsed since the previous generator call ended.
C9_InterRequestDelay ==
  bpc = "await" =>
    /\ Len(started) = 1 => gapAtStart = -1
    /\ Len(started) > 1 => gapAtStart = retryDelayMs

\* the second generator call of a batch, with a blank question skipped in between
C9_Witness ==
  /\ bpc = "await"
  /\ started = <<0, 2>>

\* C10: with overlap >= chunkSize chunkText runs no loop iteration, produces no chunk
\* and does not return normally.
C10_RejectsOverlap ==
  ck.overlap >= ck.chunkSize =>
    /\ ck.iters = 0
    /\ ck.chunks = <<>>
    /\ ck.pc # "done"

\* C11: every iteration of chunkText that is followed by another one moves the window
\* start forward by at least one character (so the loop ends).
C11_AlwaysAdvances ==
  [][(ck.pc = "loop" /\ ck'.pc = "loop") => ck'.i > ck.i]_vars

\* s without its first n characters
DropFirst(s, n) == SubSeq(s, n + 1, Len(s))

RECURSIVE ConcatAll(_)
ConcatAll(ss) == IF ss = <<>> THEN <<>> ELSE Head(ss) \o ConcatAll(Tail(ss))

\* the chunks joined, each chunk after the first without its leading overlap characters
Rebuild(chunks, overlap) ==
  ConcatAll([k \in 1..Len(chunks) |->
               IF k = 1 THEN chunks[k] ELSE DropFirst(chunks[k], overlap)])

\* C12 as stated: with overlap < chunkSize the chunks are non-empty and rebuild the text.
C12_RebuildsText ==
  (ck.pc = "done" /\ ck.overlap < ck.chunkSize) =>
    /\ \A k \in 1..Len(ck.chunks) : ck.chunks[k] # <<>>
    /\ Rebuild(ck.chunks, ck.overlap) = ck.text

\* C12 amended: with overlap < chunkSize the chunks are non-empty, and they rebuild the
\* text when trim() changed none of its windows.
C12_RebuildsUntrimmedText ==
  (ck.pc = "done" /\ ck.overlap < ck.chunkSize) =>
    /\ \A k \in 1..Len(ck.chunks) : ck.chunks[k] # <<>>
    /\ ~ck.cut => Rebuild(ck.chunks, ck.overlap) = ck.text

\* three overlapping windows, none changed by trim()
C12_Witness ==
  /\ ck.pc = "done"
  /\ ck.chunkSize = 2
  /\ ck.overlap = 1
  /\ Len(ck.chunks) = 3
  /\ ~ck.cut

\* C13 as stated: a text shorter than chunkSize gives exactly one chunk.
C13_OneChunk ==
  (ck.pc = "done" /\ Len(ck.text) < ck.chunkSize) => Len(ck.chunks) = 1

\* C13 amended: a text shorter than chunkSize gives exactly one chunk when it has a
\* character that is not whitespace, and no chunk otherwise.
C13_OneChunkUnlessBlank ==
  (ck.pc = "done" /\ Len(ck.text) < ck.chunkSize) =>
    /\ ~AllWhitespace(ck.text) => (Len(ck.chunks) = 1 /\ ck.chunks[1] # <<>>)
    /\ AllWhitespace(ck.text) => ck.chunks = <<>>

\* a padded two-character text chunked with chunkSize 3
C13_Witness ==
  /\ ck.pc = "done"
  /\ ck.text = <<" ", "a">>
  /\ ck.chunkSize = 3
  /\ ck.chunks = << <<"a">> >>

\* a completed upsertDocuments(library) that follows a completed upsertDocuments(library)
SecondRun ==
  /\ ix.pc = "done"
  /\ ix.caller = "upsert"
  /\ ix.outcome = "returned"
  /\ ix.prevOk

\* C14: upsertDocuments run a second time with the same documents leaves the index
\* with the point identifiers and payloads the first run left, and no more points.
C14_Idempotent ==
  SecondRun =>
    /\ PayloadView(ix.points) = ix.prevPoints
    /\ Cardinality(DOMAIN ix.points) = Cardinality(DOMAIN ix.prevPoints)

\* a second run over a document of two chunks and another document
C14_Witness ==
  /\ SecondRun
  /\ Len(ix.docs) = 2
  /\ ix.docs[1].content = LongText
  /\ ix.written = <<1, 2>>
  /\ Cardinality(DOMAIN ix.points) >= 3

\* the documents of the list that upsertDocuments did not write
Unwritten ==
  {ix.docs[k].id : k \in {m \in 1..Len(ix.docs) :
                            /\ ix.docs[m].content # <<>>
                            /\ \A w \in 1..Len(ix.written) : ix.written[w] # m}}

\* C15: when upsertDocuments throws after it has written earlier documents, the
\* error names the documents that were not written.
C15_FailureNamesUnwritten ==
  (ix.pc = "done" /\ ix.caller = "upsert" /\ ix.outcome = "thrown" /\ ix.written # <<>>)
    => ix.error.names = Unwritten

\* C16: a call of ensureCollection that finds the collection issues no create
\* request, and over all calls at most one create request is issued.
C16_CreatesOnce ==
  /\ ix.existedAtEntry => ix.callCreates = 0
  /\ ix.creates <= 1

\* the candidate pool: the first max(topK, widen) results of the vector search
CandidatePool == SubSeq(hs.ranking, 1, Min(Max(hs.topK, hs.widen), Len(hs.ranking)))

\* the fused score of the k-th candidate, from the query and the candidate's text
FusedOf(k) ==
  LET q == tokenize(hs.query)
      d == tokenize(CandidatePool[k].payload.content)
      common == Cardinality({m \in 1..Len(q) : \E n \in 1..Len(d) : d[n] = q[m]})
      keyword == IF q = <<>> \/ d = <<>> THEN Frac(0, 1) ELSE Frac(common, Len(q))
      vector == CandidatePool[k].score
  IN Frac(hs.alpha * vector.num * keyword.den + (100 - hs.alpha) * keyword.num * vector.den,
          100 * vector.den * keyword.den)

\* candidate k comes before candidate m: higher fused score, or the same and earlier
Precedes(k, m) ==
  \/ Greater(FusedOf(k), FusedOf(m))
  \/ SameScore(FusedOf(k), FusedOf(m)) /\ k < m

\* the place of candidate k in the descending, tie-stable order
PlaceOf(k) == 1 + Cardinality({m \in 1..Len(CandidatePool) : Precedes(m, k)})

\* C17: hybridSearch returns the first topK candidates of the pool in descending fused
\* score, equal scores in vector-search order: at most topK items, each a candidate,
\* none repeated, no omitted candidate scoring higher than a returned one.
C17_TopKByFusedScore ==
  (hs.pc = "done" /\ hs.outcome = "returned") =>
    /\ Len(hs.result) = Min(hs.topK, Len(CandidatePool))
    /\ \A k \in 1..Len(CandidatePool) :
         PlaceOf(k) <= hs.topK =>
           /\ hs.result[PlaceOf(k)].id = CandidatePool[k].id
           /\ hs.result[PlaceOf(k)].payload = CandidatePool[k].payload
           /\ hs.result[PlaceOf(k)].vectorScore = CandidatePool[k].score
           /\ SameScore(hs.result[PlaceOf(k)].score, FusedOf(k))
    /\ \A k, m \in 1..Len(hs.result) : k < m => hs.result[k].id # hs.result[m].id
    /\ \A k \in 1..Len(hs.result) : \A m \in 1..Len(CandidatePool) :
         (\A n \in 1..Len(hs.result) : hs.result[n].id # CandidatePool[m].id)
           => ~Greater(FusedOf(m), hs.result[k].score)

\* three candidates, the keyword score overturning the vector order, a tie kept in
\* vector order, and one candidate left out
C17_Witness ==
  /\ hs.pc = "done"
  /\ hs.outcome = "returned"
  /\ hs.topK = 2
  /\ Len(CandidatePool) = 3
  /\ Len(hs.result) = 2
  /\ hs.result[1].id = CandidatePool[3].id
  /\ hs.result[2].id = CandidatePool[1].id
  /\ SameScore(FusedOf(1), FusedOf(2))

\* the bullet-prefixed concatenation of the chunk texts, blank line between entries
FullContext(chunks) ==
  ConcatAll([k \in 1..Len(chunks) |->
               (IF k = 1 THEN <<>> ELSE <<"\n", "\n">>) \o <<"*", " ">> \o chunks[k].payload.content])

\* C18: the context is the full concatenation when that is at most maxChars long,
\* else its first maxChars characters and the ellipsis; never longer than maxChars
\* plus the ellipsis.
C18_ContextBudget ==
  cx.pc = "done" =>
    LET full == FullContext(cx.chunks)
    IN /\ Len(cx.context) <= cx.maxChars + Len(Ellipsis)
       /\ Len(full) <= cx.maxChars => cx.context = full
       /\ Len(full) > cx.maxChars
            => cx.context = [k \in 1..(cx.maxChars + 1) |->
                               IF k <= cx.maxChars THEN full[k] ELSE Ellipsis[1]]

\* a context cut inside its second entry
C18_Witness ==
  /\ cx.pc = "done"
  /\ cx.chunks = <<ChunkA, ChunkB>>
  /\ cx.maxChars = 7
  /\ Len(cx.context) = 8
  /\ cx.context[8] = Ellipsis[1]

\* C19: the source list has one entry per input chunk, in input order, the k-th naming
\* the document id (the point id when the payload has none) and the chunk index (0
\* when the payload has none) of the k-th chunk, also when the context is truncated.
C19_OneSourcePerChunk ==
  cx.pc = "done" =>
    /\ Len(cx.sources) = Len(cx.chunks)
    /\ \A k \in 1..Len(cx.chunks) :
         LET p == cx.chunks[k].payload
         IN /\ cx.sources[k][1] = "doc:"
            /\ cx.sources[k][2] = (IF p.doc_id = Missing THEN cx.chunks[k].id ELSE p.doc_id)
            /\ cx.sources[k][5] = (IF p.chunk_index = Missing THEN 0 ELSE p.chunk_index)

\* the context holds only text of the first chunk, and both chunks are cited
C19_Witness ==
  /\ cx.pc = "done"
  /\ cx.chunks = <<ChunkA, ChunkB>>
  /\ cx.maxChars = 4
  /\ Len(cx.context) = 5
  /\ Len(cx.sources) = 2
  /\ cx.sources[2][2] = ChunkB.id

\* a generateAnswer that returned on a success response of the chat endpoint
SuccessReturn(c) == call[c].pc = "done" /\ call[c].content # NoContent

\* C20: on a success response generateAnswer returns the content unchanged, for every
\* content string including the empty one, with the source list of buildContext.
C20_VerbatimAnswer ==
  \A c \in Calls :
    SuccessReturn(c) =>
      /\ call[c].result.answer = call[c].content
      /\ call[c].result.sources = buildContext(call[c].retrieved, maxContextLength).sources

\* C20 (amended): non-empty content is returned unchanged, empty or absent content is
\* replaced by "No response generated"; the sources are those of buildContext.
C20_AnswerOrPlaceholder ==
  \A c \in Calls :
    SuccessReturn(c) =>
      /\ call[c].content # "" => call[c].result.answer = call[c].content
      /\ call[c].content = "" => call[c].result.answer = "No response generated"
      /\ call[c].result.sources = buildContext(call[c].retrieved, maxContextLength).sources
      /\ call[c].retrieved = <<>> => call[c].result.sources = <<>>

\* a success response with content, after a retrieval that found chunks
C20_Witness ==
  /\ SuccessReturn(1)
  /\ call[1].content = "the answer"
  /\ call[1].result.answer = "the answer"
  /\ call[1].retrieved = <<ChunkA, ChunkB>>
  /\ Len(call[1].result.sources) = 2

\* the chat requests among the first n events of a log
ChatsBefore(log, n) == Cardinality({k \in 1..n : log[k].ev = "chat"})

\* the retry state of one call follows from the call's own requests alone
OwnSchedule(cr) ==
  /\ ChatsBefore(cr.log, Len(cr.log)) <= maxRetries
  /\ \A k \in 1..Len(cr.log) :
       cr.log[k].ev = "delay" => cr.log[k].ms = retryDelayMs * ChatsBefore(cr.log, k - 1)
  /\ cr.pc = "chat" => cr.attempt = ChatsBefore(cr.log, Len(cr.log)) + 1
  /\ cr.pc = "backoff" =>
       /\ cr.attempt = ChatsBefore(cr.log, Len(cr.log))
       /\ cr.wait = retryDelayMs * cr.attempt
  /\ cr.result = ExhaustedResult => ChatsBefore(cr.log, Len(cr.log)) = maxRetries
  /\ cr.result = UnexpectedResult => FALSE

\* C21: with two generateAnswer calls interleaved, each call's attempt number, delays
\* and budget of 3 attempts follow from its own requests, whatever the other call met.
C21_RetryStatePerCall == \A c \in Calls : OwnSchedule(call[c])

\* call 1 has used up its three attempts while call 2 waits after its first 429
C21_Witness ==
  /\ call[1].pc = "done"
  /\ call[1].result = ExhaustedResult
  /\ call[2].pc = "backoff"
  /\ call[2].attempt = 1
  /\ call[2].wait = retryDelayMs

\* no chat request follows a success response that was read
NothingAfterSuccess(log) ==
  \A k \in 1..Len(log) : (log[k].ev = "chat" /\ log[k].class = "ok") => k = Len(log)

\* C23: whatever the chat endpoint does, a generateAnswer call makes at most 3 chat
\* requests, none after the first success response, and once it has reached the chat
\* endpoint it ends by returning a result.
C23_BoundedAndCompletes ==
  /\ [](/\ ChatsBefore(call[1].log, Len(call[1].log)) <= maxRetries
        /\ NothingAfterSuccess(call[1].log)
        /\ (call[1].pc = "done" /\ call[1].log # <<>>)
             => (call[1].outcome = "returned" /\ call[1].result # NoResult))
  /\ (call[1].pc = "chat") ~> (call[1].pc = "done" /\ call[1].outcome = "returned")

\* another status, then a network error, then a success response on the third attempt
C23_Witness ==
  /\ call[1].pc = "done"
  /\ Len(call[1].log) = 3
  /\ call[1].log[1].class = "status"
  /\ call[1].log[2].class = "error"
  /\ call[1].log[3].class = "ok"
  /\ call[1].result.answer = "the answer"

\* C27: a failure of the embedding request or of the store during retrieval ends
\* generateAnswer as a thrown error, with no chat request and no retry; the batch
\* marks the question failed, and the chat route stores no message.
C27_RetrievalFailureThrows ==
  /\ \A c \in Calls :
       call[c].fault # "none" =>
         /\ call[c].pc = "done"
         /\ call[c].outcome = "thrown"
         /\ call[c].result = NoResult
         /\ call[c].log = <<>>
         /\ "chat" \notin call[c].net
  /\ \A c \in Calls : (call[c].pc = "done" /\ call[c].outcome = "thrown") => call[c].fault # "none"
  /\ \A k \in 1..Len(processed) : how[k] = "thrown" => processed[k].status = "failed"
  /\ (bpc = "responded" /\ call[1].fault # "none") => (chat.stored = <<>> /\ chat.status = 500)

\* the chat route answered 500 after the store search failed
C27_Witness ==
  /\ bpc = "responded"
  /\ call[1].fault = "search"
  /\ call[1].net = {"embed", "store"}
  /\ chat.status = 500
  /\ chat.stored = <<>>

\* the payloads the index holds for the document with this id
StoredFor(id) == {ix.points[p].payload : p \in {q \in DOMAIN ix.points : ix.points[q].payload.doc_id = id}}

\* the payloads of the chunks of a document
ChunksOf(doc) ==
  LET chunks == chunkText(doc.content)
  IN {PayloadOf(doc, chunks, idx - 1) : idx \in 1..Len(chunks)}

\* C26: after upsertDocuments has indexed a document, the index holds for that
\* document exactly the chunks of the content just indexed, none of an earlier indexing.
C26_NoStaleChunks ==
  (ix.pc = "done" /\ ix.caller = "upsert" /\ ix.outcome = "returned") =>
    \A k \in 1..Len(ix.docs) :
      (/\ ix.docs[k].content # <<>>
       /\ \A m \in 1..Len(ix.docs) : ix.docs[m].id = ix.docs[k].id => m = k)
        => StoredFor(ix.docs[k].id) = ChunksOf(ix.docs[k])

\* C28: two ensureCollection calls that interleave while the collection is absent
\* both return without error, and one collection exists afterwards.
C28_BothComplete ==
  (\A p \in Procs : en.pc[p] = "done") =>
    /\ \A p \in Procs : en.outcome[p] = "returned"
    /\ en.collections = 1

\* the export requests
Exports == {r \in Reqs : rq[r].kind = "export"}

C24_AcceptedAnswerKept ==
  \A k \in 1..Len(db.questions) :
    db.questions[k].accepted => db.questions[k].answer = db.acceptedAnswer[k]

\* no request is being served
Quiet == \A r \in Reqs : rq[r].pc \in {"idle", "done"}

\* C25: once all requests have finished, every question whose accept request was
\* answered with success is accepted in storage.
C25_NoLostAcceptance ==
  Quiet =>
    \A k \in 1..Len(db.questions) :
      db.questions[k].id \in db.acked => db.questions[k].accepted

\* C29: an accept request naming an id that no question of the job has is answered
\* 404 "Question not found".
C29_UnknownQuestionRefused ==
  \A r \in Reqs :
    (/\ rq[r].kind = "accept"
     /\ rq[r].pc = "done"
     /\ rq[r].job # <<>>
     /\ ~HasQuestion(rq[r].job, rq[r].questionId))
      => (rq[r].status = 404 /\ rq[r].error = "Question not found")

\* C30: the write of a regenerate request leaves the stored question with the answer and
\* the sources of the generateAnswer result the request returns.
C30_AnswerAndSourcesTogether ==
  [][\A r \in Reqs : RegenerateWrite(r) =>
       \A k \in 1..Len(db.questions') :
         db.questions'[k].id = rq[r].questionId =>
           /\ db.questions'[k].answer = rq[r].result.answer
           /\ db.questions'[k].sources = rq[r].result.sources]_vars

====
